---- MODULE Spec2Model ----
(***************************************************************************)
(* ConnectionManagerWithHealth                                             *)
(* (projects/extension/src/background/ConnectionManagerWithHealth.ts).     *)
(*                                                                         *)
(* The layer keeps a map sandbox -> chain -> health record and one         *)
(* counter, rewrites the ids of the JSON-RPC requests of its clients,      *)
(* injects its own requests (chainHead_unstable_follow, system_health)     *)
(* and filters what the inner ConnectionManager produces.                  *)
(*                                                                         *)
(* JSON-RPC ids are sequences of one-character strings, so that prefix     *)
(* tests, JSON.stringify and JSON.parse are computed character by          *)
(* character.  A JSON-RPC message is a record; a response has the field    *)
(* "id", a notification has not.                                           *)
(***************************************************************************)
EXTENDS Integers, Sequences, FiniteSets, Bags, TLC

(***************************************************************************)
(* Bounds of the model.                                                    *)
(***************************************************************************)
\* largest value the id counter may reach
MaxRqId == 3
\* #nextHealthCheckRqId stays within MaxPingRqId where the pings alone may
\* take it beyond MaxRqId
MaxPingRqId == 5
\* most requests the inner manager will still answer; it never answers those
\* it is given beyond them
MaxPending == 1
\* largest peer count a system_health response reports
MaxPeers == 1

SandboxIds == {"s1", "s2"}
ChainIds == {"c1", "c2"}
\* subscription ids the inner manager hands out
SubscriptionIds == {"subA", "subB"}

(***************************************************************************)
(* Strings as sequences of characters.                                     *)
(***************************************************************************)
EXTERN == <<"e", "x", "t", "e", "r", "n", ":">>
HEALTH_CHECK == <<"h", "e", "a", "l", "t", "h", "-", "c", "h", "e", "c", "k", ":">>
READY_SUB == <<"r", "e", "a", "d", "y", "-", "s", "u", "b", ":">>
NULL == <<"n", "u", "l", "l">>
UNDEFINED == <<"u", "n", "d", "e", "f", "i", "n", "e", "d">>
QUOTE == "\""
BACKSLASH == "\\"
DigitChars == <<"0", "1", "2", "3", "4", "5", "6", "7", "8", "9">>

\* String.prototype.startsWith
startsWith(s, prefix) ==
  /\ Len(s) >= Len(prefix)
  /\ SubSeq(s, 1, Len(prefix)) = prefix

\* String.prototype.slice(n)
slice(s, n) == SubSeq(s, n + 1, Len(s))

\* decimal digits of a natural number, as string concatenation of a number does
RECURSIVE NatToString(_)
NatToString(n) ==
  IF n < 10 THEN <<DigitChars[n + 1]>>
  ELSE NatToString(n \div 10) \o <<DigitChars[(n % 10) + 1]>>

NumberToString(n) == IF n < 0 THEN <<"-">> \o NatToString(0 - n) ELSE NatToString(n)

(***************************************************************************)
(* JavaScript values an id can be: a string, a number, null, or undefined  *)
(* (the property is missing).                                              *)
(***************************************************************************)
StringValue(chars) == [t |-> "string", s |-> chars, n |-> 0]
NumberValue(k) == [t |-> "number", s |-> <<>>, n |-> k]
NullValue == [t |-> "null", s |-> <<>>, n |-> 0]
UndefinedValue == [t |-> "undefined", s |-> <<>>, n |-> 0]
\* JSON.parse throws SyntaxError
SyntaxError == [t |-> "SyntaxError", s |-> <<>>, n |-> 0]

\* the body of a JSON string literal: quote and backslash are escaped
RECURSIVE EscapeChars(_)
EscapeChars(s) ==
  IF s = <<>> THEN <<>>
  ELSE (IF Head(s) \in {QUOTE, BACKSLASH} THEN <<BACKSLASH, Head(s)>> ELSE <<Head(s)>>)
       \o EscapeChars(Tail(s))

\* JSON.stringify of an id; of undefined it is undefined, which string
\* concatenation renders as "undefined"
JSONstringify(v) ==
  CASE v.t = "string" -> <<QUOTE>> \o EscapeChars(v.s) \o <<QUOTE>>
    [] v.t = "number" -> NumberToString(v.n)
    [] v.t = "null" -> NULL
    [] OTHER -> UNDEFINED

\* reads the body of a string literal up to its closing quote:
\* <<ok, characters read, rest after the closing quote>>
RECURSIVE ParseStringBody(_, _)
ParseStringBody(s, acc) ==
  IF s = <<>> THEN <<FALSE, acc, <<>>>>
  ELSE IF Head(s) = QUOTE THEN <<TRUE, acc, Tail(s)>>
  ELSE IF Head(s) = BACKSLASH
    THEN IF Len(s) >= 2 /\ s[2] \in {QUOTE, BACKSLASH}
           THEN ParseStringBody(Tail(Tail(s)), Append(acc, s[2]))
           ELSE <<FALSE, acc, <<>>>>
  ELSE ParseStringBody(Tail(s), Append(acc, Head(s)))

DigitValue(c) == CHOOSE d \in 0..9 : DigitChars[d + 1] = c
IsDigit(c) == \E d \in 1..10 : DigitChars[d] = c

RECURSIVE ParseNat(_, _)
ParseNat(s, acc) ==
  IF s = <<>> THEN acc ELSE ParseNat(Tail(s), acc * 10 + DigitValue(Head(s)))

\* JSON grammar of an integer: no leading zero, at least one digit
IsJsonInt(s) ==
  /\ s # <<>>
  /\ \A i \in 1..Len(s) : IsDigit(s[i])
  /\ (Len(s) > 1 => s[1] # "0")

\* JSON.parse of the text of an id
JSONparse(text) ==
  IF text = <<>> THEN SyntaxError
  ELSE IF Head(text) = QUOTE
    THEN LET r == ParseStringBody(Tail(text), <<>>)
         IN IF r[1] /\ r[3] = <<>> THEN StringValue(r[2]) ELSE SyntaxError
  ELSE IF text = NULL THEN NullValue
  ELSE IF Head(text) = "-"
    THEN IF IsJsonInt(Tail(text)) THEN NumberValue(0 - ParseNat(Tail(text), 0))
         ELSE SyntaxError
  ELSE IF IsJsonInt(text) THEN NumberValue(ParseNat(text, 0))
  ELSE SyntaxError


\* JavaScript truthiness of a value, as in `if (jsonRpcMessage.id)`
Truthy(v) ==
  CASE v.t = "string" -> v.s # <<>>
    [] v.t = "number" -> v.n # 0
    [] v.t = "object" -> TRUE
    [] OTHER -> FALSE

\* the object { peers: k } of a system_health result
PeersObject(k) == [t |-> "object", s |-> <<>>, n |-> k]

\* the string of a subscription id
SubscriptionString(name) == StringValue(<<name>>)

(***************************************************************************)
(* State.                                                                  *)
(***************************************************************************)
VARIABLES
  \* #sandboxesChains: a function sandbox id -> (function chain id -> Chain)
  sandboxesChains,
  \* #nextHealthCheckRqId
  nextHealthCheckRqId,
  \* inner manager: the sandboxes it knows
  innerSandboxes,
  \* inner manager: per sandbox and chain "none", "initializing", "announcing"
  \* (ready, its chain-ready item not yet taken) or "ready"
  innerChains,
  \* inner manager: the bag of JSON-RPC requests it has not answered yet
  innerRequests,
  \* the ids of the requests the layer has generated itself so far
  internalIds,
  \* per sandbox and chain, whether the "initialized" event of the layer's
  \* subscription has been handled: "never", for the "current" health record,
  \* or only for an "earlier" one, deleted or replaced since
  initializedSeen,
  \* per sandbox and chain, what last ended the tracking of the chain: "error",
  \* "remove-chain" or "deleteSandbox"; "none" before and once chain-ready is
  \* handled for it again
  endedBy,
  \* what the last operation was given, did and gave back
  last

vars == <<sandboxesChains, nextHealthCheckRqId, innerSandboxes, innerChains,
          innerRequests, internalIds, initializedSeen, endedBy, last>>

(***************************************************************************)
(* Maps.                                                                   *)
(***************************************************************************)
MapHas(m, k) == k \in DOMAIN m
MapSet(m, k, v) == [x \in (DOMAIN m) \cup {k} |-> IF x = k THEN v ELSE m[x]]
MapDelete(m, k) == [x \in (DOMAIN m) \ {k} |-> m[x]]
EmptyMap == [x \in {} |-> 0]

(***************************************************************************)
(* Messages.                                                               *)
(***************************************************************************)
\* a record created as if the chain had one peer already
NewChainWithPeer ==
  [isSyncing |-> TRUE, peers |-> 1, readySubscriptionId |-> UndefinedValue]

\* interface Chain, as created on chain-ready: readySubscriptionId is not set
NewChain == [isSyncing |-> TRUE, peers |-> 0, readySubscriptionId |-> UndefinedValue]

\* the value of `chain` when the map has no entry
NoChain == [undefined |-> TRUE]

ChainsStatusChanged == [origin |-> "connection-manager", type |-> "chains-status-changed"]

ChainReadyItem(c) == [type |-> "chain-ready", chainId |-> c]
ErrorItem(c) == [type |-> "error", chainId |-> c, errorMessage |-> "error"]
RpcItem(c, m) == [type |-> "rpc", chainId |-> c, jsonRpcMessage |-> m]

\* JSON-RPC response and subscription notification, as parsed by JSON.parse
Response(id, result) == [jsonrpc |-> "2.0", id |-> id, result |-> result]
Notification(method, subscription, event) ==
  [jsonrpc |-> "2.0", method |-> method,
   params |-> [subscription |-> subscription, result |-> [event |-> event]]]

\* jsonRpcMessage.id : undefined when the message has no id
IdOf(m) == IF "id" \in DOMAIN m THEN m.id ELSE UndefinedValue

\* jsonRpcMessage.method : undefined when the message is a response
MethodOf(m) == IF "method" \in DOMAIN m THEN m.method ELSE "undefined"

\* a JSON-RPC request text; valid = FALSE is a text JSON.parse rejects
Request(id, method, params) ==
  [valid |-> TRUE, jsonrpc |-> "2.0", id |-> id, method |-> method, params |-> params]
MalformedText ==
  [valid |-> FALSE, jsonrpc |-> "", id |-> UndefinedValue, method |-> "", params |-> <<>>]

\* ToExtension messages
RpcMessage(c, text) ==
  [origin |-> "substrate-connect-client", type |-> "rpc", chainId |-> c,
   jsonRpcMessage |-> text]
AddChainMessage(c) ==
  [origin |-> "substrate-connect-client", type |-> "add-chain", chainId |-> c]
RemoveChainMessage(c) ==
  [origin |-> "substrate-connect-client", type |-> "remove-chain", chainId |-> c]

\* "ready-sub:" + this.#nextHealthCheckRqId
ReadySubId(n) == StringValue(READY_SUB \o NumberToString(n))
\* "health-check:" + this.#nextHealthCheckRqId
HealthCheckId(n) == StringValue(HEALTH_CHECK \o NumberToString(n))

\* the chainHead_unstable_follow request of chain-ready and of "stop"
FollowRequest(c, n) ==
  RpcMessage(c, Request(ReadySubId(n), "chainHead_unstable_follow", <<TRUE>>))
\* the system_health request of "initialized" and of #sendPings
HealthRequest(c, n) ==
  RpcMessage(c, Request(HealthCheckId(n), "system_health", <<>>))

(***************************************************************************)
(* The identifier codec of sandboxMessage and nextSandboxMessage.          *)
(***************************************************************************)
\* a request forwarded with the id the client gave it
wrapExternalNot(id) == id

\* a prefixing that omits JSON.stringify: "extern:" + id
wrapExternalUnquoted(id) ==
  StringValue(EXTERN \o (CASE id.t = "string" -> id.s
                            [] id.t = "number" -> NumberToString(id.n)
                            [] id.t = "null" -> NULL
                            [] OTHER -> UNDEFINED))

\* "extern:" + JSON.stringify(parsedJsonRpcMessage.id)
wrapExternal(id) == StringValue(EXTERN \o JSONstringify(id))

\* JSON.parse((jsonRpcMessage.id as string).slice("extern:".length))
unwrapExternal(idString) == JSONparse(slice(idString, Len(EXTERN)))

(***************************************************************************)
(* nextSandboxMessage: what one turn of the loop does with the item the    *)
(* inner manager produced.  An effect is the new #sandboxesChains, the new *)
(* counter, the messages passed to this.#inner.sandboxMessage, how the     *)
(* turn ends ("return", "continue", or the exception thrown) and the item  *)
(* returned.                                                               *)
(***************************************************************************)
NoItem == [type |-> "none"]

Effect(chains, counter, sent, outcome, returned) ==
  [chains |-> chains, counter |-> counter, sent |-> sent, outcome |-> outcome,
   returned |-> returned]

Return(chains, counter, sent, item) == Effect(chains, counter, sent, "return", item)
Continue(chains, counter, sent) == Effect(chains, counter, sent, "continue", NoItem)
Throw(chains, counter, exception) == Effect(chains, counter, <<>>, exception, NoItem)

\* this.#sandboxesChains.get(sandboxId)!.get(chainId)!
GetChain(chains, s, c) ==
  IF MapHas(chains, s) /\ MapHas(chains[s], c) THEN chains[s][c] ELSE NoChain

\* an assignment that reaches the record of every chain of the sandbox
PutChainEverywhere(chains, s, c, chain) ==
  MapSet(chains, s, [d \in (DOMAIN chains[s]) \cup {c} |-> chain])

\* a field of `chain` is assigned; `chain` is the object held by the map
PutChain(chains, s, c, chain) == MapSet(chains, s, MapSet(chains[s], c, chain))

\* case "chain-ready"
OnChainReady(chains, counter, s, item) ==
  Return(IF MapHas(chains, s) THEN PutChain(chains, s, item.chainId, NewChain) ELSE chains,
         counter + 1,
         <<FollowRequest(item.chainId, counter)>>,
         item)

\* id starts with "extern:"
OnExternResponse(chains, counter, s, item) ==
  LET id == unwrapExternal(item.jsonRpcMessage.id.s)
  IN IF id = SyntaxError THEN Throw(chains, counter, "SyntaxError")
     ELSE Return(chains, counter, <<>>,
                 [item EXCEPT !.jsonRpcMessage = [item.jsonRpcMessage EXCEPT !.id = id]])

\* a health-check branch that also takes the answer as the end of the syncing
OnHealthCheckResponseSynced(chains, counter, s, item) ==
  LET chain == GetChain(chains, s, item.chainId)
  IN IF chain = NoChain THEN Throw(chains, counter, "TypeError")
     ELSE Return(PutChain(chains, s, item.chainId,
                          [chain EXCEPT !.peers = item.jsonRpcMessage.result.n,
                                        !.isSyncing = FALSE]),
                 counter, <<>>, ChainsStatusChanged)

\* id starts with "health-check:"
OnHealthCheckResponse(chains, counter, s, item) ==
  LET chain == GetChain(chains, s, item.chainId)
  IN IF chain = NoChain THEN Throw(chains, counter, "TypeError")
     ELSE Return(PutChain(chains, s, item.chainId,
                          [chain EXCEPT !.peers = item.jsonRpcMessage.result.n]),
                 counter, <<>>, ChainsStatusChanged)

\* a handling of the ready-sub response that takes the chain to be syncing again
OnReadySubResponseResyncing(chains, counter, s, item) ==
  LET chain == GetChain(chains, s, item.chainId)
  IN IF chain = NoChain THEN Throw(chains, counter, "TypeError")
     ELSE Continue(PutChain(chains, s, item.chainId,
                            [chain EXCEPT !.readySubscriptionId = item.jsonRpcMessage.result,
                                          !.isSyncing = TRUE]),
                   counter, <<>>)

\* id starts with "ready-sub:"
OnReadySubResponse(chains, counter, s, item) ==
  LET chain == GetChain(chains, s, item.chainId)
  IN IF chain = NoChain THEN Throw(chains, counter, "TypeError")
     ELSE Continue(PutChain(chains, s, item.chainId,
                            [chain EXCEPT !.readySubscriptionId = item.jsonRpcMessage.result]),
                   counter, <<>>)

\* case "initialized"
OnInitialized(chains, counter, s, item) ==
  LET chain == GetChain(chains, s, item.chainId)
  IN Return(PutChain(chains, s, item.chainId, [chain EXCEPT !.isSyncing = FALSE]),
            counter + 1,
            <<HealthRequest(item.chainId, counter)>>,
            ChainsStatusChanged)

\* a "stop" case that does not subscribe again
OnStopNotAsking(chains, counter, s, item) ==
  LET chain == GetChain(chains, s, item.chainId)
  IN Continue(PutChain(chains, s, item.chainId,
                       [chain EXCEPT !.readySubscriptionId = UndefinedValue]),
              counter, <<>>)

\* a "stop" case that keeps the subscription id it holds
OnStopKeepingSubscription(chains, counter, s, item) ==
  Continue(chains, counter, <<FollowRequest(item.chainId, counter)>>)

\* a "stop" case that takes the chain to be syncing again
OnStopResyncing(chains, counter, s, item) ==
  LET chain == GetChain(chains, s, item.chainId)
  IN Continue(PutChain(chains, s, item.chainId,
                       [chain EXCEPT !.readySubscriptionId = UndefinedValue,
                                     !.isSyncing = TRUE]),
              counter,
              <<FollowRequest(item.chainId, counter)>>)

\* case "stop": the counter is left as it is
OnStop(chains, counter, s, item) ==
  LET chain == GetChain(chains, s, item.chainId)
  IN Continue(PutChain(chains, s, item.chainId,
                       [chain EXCEPT !.readySubscriptionId = UndefinedValue]),
              counter,
              <<FollowRequest(item.chainId, counter)>>)

\* a switch whose default case returns the item
OnFollowEventOrReturn(chains, counter, s, item) ==
  LET event == item.jsonRpcMessage.params.result.event
  IN CASE event = "initialized" -> OnInitialized(chains, counter, s, item)
       [] event = "stop" -> OnStop(chains, counter, s, item)
       [] OTHER -> Return(chains, counter, <<>>, item)

\* the switch on jsonRpcMessage.params.result.event; it has no default case
OnFollowEvent(chains, counter, s, item) ==
  LET event == item.jsonRpcMessage.params.result.event
  IN CASE event = "initialized" -> OnInitialized(chains, counter, s, item)
       [] event = "stop" -> OnStop(chains, counter, s, item)
       [] OTHER -> Continue(chains, counter, <<>>)

\* a handling of notifications that takes every follow event as its own
OnNotificationAnySubscription(chains, counter, s, item) ==
  LET chain == GetChain(chains, s, item.chainId)
  IN IF MethodOf(item.jsonRpcMessage) = "chainHead_unstable_followEvent"
       THEN IF chain = NoChain THEN Throw(chains, counter, "TypeError")
            ELSE OnFollowEvent(chains, counter, s, item)
       ELSE Return(chains, counter, <<>>, item)

\* a message without (truthy) id
OnNotification(chains, counter, s, item) ==
  LET chain == GetChain(chains, s, item.chainId)
      m == item.jsonRpcMessage
  IN IF MethodOf(m) = "chainHead_unstable_followEvent"
       THEN IF chain = NoChain THEN Throw(chains, counter, "TypeError")
            ELSE IF m.params.subscription = chain.readySubscriptionId
              THEN OnFollowEvent(chains, counter, s, item)
              ELSE Return(chains, counter, <<>>, item)
       ELSE Return(chains, counter, <<>>, item)

\* a case "rpc" that takes an id of no known prefix like a message without id
OnRpcLenient(chains, counter, s, item) ==
  LET id == IdOf(item.jsonRpcMessage)
  IN IF ~MapHas(chains, s) THEN Throw(chains, counter, "TypeError")
     ELSE IF Truthy(id) /\ id.t = "string" /\ startsWith(id.s, EXTERN)
       THEN OnExternResponse(chains, counter, s, item)
     ELSE IF Truthy(id) /\ id.t = "string" /\ startsWith(id.s, HEALTH_CHECK)
       THEN OnHealthCheckResponse(chains, counter, s, item)
     ELSE IF Truthy(id) /\ id.t = "string" /\ startsWith(id.s, READY_SUB)
       THEN OnReadySubResponse(chains, counter, s, item)
     ELSE OnNotification(chains, counter, s, item)

\* case "rpc"
OnRpc(chains, counter, s, item) ==
  LET id == IdOf(item.jsonRpcMessage)
  IN IF ~MapHas(chains, s) THEN Throw(chains, counter, "TypeError")
     ELSE IF Truthy(id)
       THEN IF id.t # "string" THEN Throw(chains, counter, "TypeError")
            ELSE IF startsWith(id.s, EXTERN) THEN OnExternResponse(chains, counter, s, item)
            ELSE IF startsWith(id.s, HEALTH_CHECK)
              THEN OnHealthCheckResponse(chains, counter, s, item)
            ELSE IF startsWith(id.s, READY_SUB)
              THEN OnReadySubResponse(chains, counter, s, item)
            ELSE Throw(chains, counter, "Error")
       ELSE OnNotification(chains, counter, s, item)

\* an "error" case that keeps the record
OnErrorKeepingRecord(chains, counter, s, item) == Return(chains, counter, <<>>, item)

\* case "error"
OnError(chains, counter, s, item) ==
  Return(IF MapHas(chains, s)
           THEN MapSet(chains, s, MapDelete(chains[s], item.chainId))
           ELSE chains,
         counter, <<>>, item)

\* switch (toApplication.type)
HandleToApplication(chains, counter, s, item) ==
  CASE item.type = "chain-ready" -> OnChainReady(chains, counter, s, item)
    [] item.type = "rpc" -> OnRpc(chains, counter, s, item)
    [] item.type = "error" -> OnError(chains, counter, s, item)
    [] OTHER -> Return(chains, counter, <<>>, item)

(***************************************************************************)
(* sandboxMessage: the new #sandboxesChains, the message handed to         *)
(* this.#inner.sandboxMessage (none when the call throws before), and the  *)
(* exception left pending when the inner call returns.                     *)
(***************************************************************************)
NoMessage == [type |-> "none"]

\* a case "remove-chain" that creates the map of a sandbox it does not find
OnRemoveChainCreating(chains, s, message) ==
  [chains |-> MapSet(chains, s, IF MapHas(chains, s)
                                  THEN MapDelete(chains[s], message.chainId) ELSE <<>>),
   delegated |-> message, outcome |-> "ok"]

\* case "remove-chain"
OnRemoveChain(chains, s, message) ==
  IF ~MapHas(chains, s)
    THEN [chains |-> chains, delegated |-> NoMessage, outcome |-> "TypeError"]
    ELSE [chains |-> MapSet(chains, s, MapDelete(chains[s], message.chainId)),
          delegated |-> message, outcome |-> "ok"]

\* a case "rpc" with try { } catch { return }: nothing is delegated
OnRpcMessageCatching(chains, s, message) ==
  IF ~message.jsonRpcMessage.valid
    THEN [chains |-> chains, delegated |-> NoMessage, outcome |-> "ok"]
    ELSE [chains |-> chains,
          delegated |-> [message EXCEPT !.jsonRpcMessage.id = wrapExternal(@)],
          outcome |-> "ok"]

\* case "rpc": try { parse, wrap the id } finally { delegate }
OnRpcMessage(chains, s, message) ==
  IF ~message.jsonRpcMessage.valid
    THEN [chains |-> chains, delegated |-> message, outcome |-> "SyntaxError"]
    ELSE [chains |-> chains,
          delegated |-> [message EXCEPT !.jsonRpcMessage.id = wrapExternal(@)],
          outcome |-> "ok"]

\* switch (message.type)
HandleToExtension(chains, s, message) ==
  CASE message.type = "remove-chain" -> OnRemoveChain(chains, s, message)
    [] message.type = "rpc" -> OnRpcMessage(chains, s, message)
    [] OTHER -> [chains |-> chains, delegated |-> message, outcome |-> "ok"]

(***************************************************************************)
(* #sendPings: the loops over #sandboxesChains.  `order` lists the         *)
(* (sandbox, chain) pairs in the order the two loops visit them.  The      *)
(* inner manager throws on a sandbox it does not know, which ends the      *)
(* loops.                                                                  *)
(***************************************************************************)
Sent(s, message) == [sandboxId |-> s, message |-> message]

\* loops that end after the first pair
SendPingsFirstOnly(order, counter, sent, known) ==
  IF order = <<>> THEN [counter |-> counter, sent |-> sent, outcome |-> "ok"]
  ELSE [counter |-> counter + 1,
        sent |-> Append(sent, Sent(Head(order)[1], HealthRequest(Head(order)[2], counter))),
        outcome |-> "ok"]

RECURSIVE SendPings(_, _, _, _)
SendPings(order, counter, sent, known) ==
  IF order = <<>> THEN [counter |-> counter, sent |-> sent, outcome |-> "ok"]
  ELSE LET s == Head(order)[1]
           c == Head(order)[2]
           rq == Sent(s, HealthRequest(c, counter))
       IN IF s \notin known
            THEN [counter |-> counter, sent |-> Append(sent, rq), outcome |-> "Error"]
            ELSE SendPings(Tail(order), counter + 1, Append(sent, rq), known)

\* the pairs the loops of #sendPings visit
TrackedPairs(chains) ==
  {p \in SandboxIds \X ChainIds : MapHas(chains, p[1]) /\ MapHas(chains[p[1]], p[2])}

\* a Map is iterated in insertion order, which the model does not keep: any
\* order of the sandboxes, and of the chains of each, is an iteration order
IterationOrders(chains) ==
  LET pairs == TrackedPairs(chains)
      n == Cardinality(pairs)
  IN {o \in [1..n -> pairs] :
        /\ \A i, j \in 1..n : i # j => o[i] # o[j]
        /\ \A i, j, k \in 1..n : (i < j /\ j < k /\ o[i][1] = o[k][1]) => o[j][1] = o[i][1]}

\* addSandbox, after this.#inner.addSandbox has returned
OnAddSandbox(chains, s) == MapSet(chains, s, EmptyMap)

\* a deleteSandbox that leaves the chains of the sandbox in the map
OnDeleteSandboxKeepingChains(chains, s) == chains

\* deleteSandbox, after this.#inner.deleteSandbox has returned
OnDeleteSandbox(chains, s) == MapDelete(chains, s)

\* the body of allChains.map for a chain with apiInfo: its peers and isSyncing,
\* a TypeError when the lookup finds no record
ChainStatus(chains, s, c) ==
  LET chain == GetChain(chains, s, c)
  IN IF chain = NoChain THEN [error |-> "TypeError"]
     ELSE [peers |-> chain.peers, isSyncing |-> chain.isSyncing]

\* names of the well-known chains
WellKnownNames == {"polkadot", "kusama"}

\* a ChainInfo of the inner manager: one of a sandbox carries apiInfo
SandboxChainInfo(s, c) == [hasApiInfo |-> TRUE, sandboxId |-> s, chainId |-> c]

WellKnownChainInfo(name) == [hasApiInfo |-> FALSE, sandboxId |-> "", chainId |-> name]

\* the peers and isSyncing allChains adds to one ChainInfo
AllChainsEntry(chains, chainInfo) ==
  IF chainInfo.hasApiInfo
    THEN ChainStatus(chains, chainInfo.sandboxId, chainInfo.chainId)
    ELSE [peers |-> 0, isSyncing |-> TRUE]

(***************************************************************************)
(* The inner ConnectionManager (./ConnectionManager), by its contract:     *)
(* it keeps the sandboxes and their chains, produces the items of each     *)
(* sandbox, and answers a JSON-RPC request with the id it was given.       *)
(***************************************************************************)
\* ids a client gives its requests: strings, numbers and null
ClientIds ==
  { StringValue(HEALTH_CHECK \o <<"0">>), StringValue(READY_SUB \o <<"0">>),
    StringValue(EXTERN \o <<"0">>), StringValue(<<QUOTE, BACKSLASH>>),
    StringValue(<<>>), NumberValue(0), NumberValue(0 - 12), NullValue }
\* the ids of the clients of Spec
SomeClientIds == {StringValue(HEALTH_CHECK \o <<"0">>)}

\* a request the inner manager holds: the message it was given and, for a
\* request of a client, the id the client gave it
Held(s, message, client, givenId) ==
  [sandboxId |-> s, message |-> message, client |-> client, givenId |-> givenId]

\* inner.sandboxMessage: the requests and chains of the inner manager after it
\* was given `message` for the known sandbox s
InnerSandboxMessage(requests, chains, s, message, client, givenId) ==
  CASE message.type = "rpc" ->
         [requests |-> IF message.jsonRpcMessage.valid
                            /\ BagCardinality(requests) < MaxPending
                         THEN requests (+) SetToBag({Held(s, message, client, givenId)})
                         ELSE requests,
          chains |-> chains]
    [] message.type = "add-chain" ->
         [requests |-> requests,
          chains |-> [chains EXCEPT ![s][message.chainId] = "initializing"]]
    [] message.type = "remove-chain" ->
         [requests |-> requests,
          chains |-> [chains EXCEPT ![s][message.chainId] = "none"]]
    [] OTHER -> [requests |-> requests, chains |-> chains]

RECURSIVE InnerSandboxMessages(_, _, _)
InnerSandboxMessages(requests, chains, sent) ==
  IF sent = <<>> THEN [requests |-> requests, chains |-> chains]
  ELSE LET r == InnerSandboxMessage(requests, chains, Head(sent).sandboxId,
                                    Head(sent).message, FALSE, UndefinedValue)
       IN InnerSandboxMessages(r.requests, r.chains, Tail(sent))

\* the results the inner manager may give to a request
InnerResults(method) ==
  CASE method = "chainHead_unstable_follow" ->
         {SubscriptionString(sub) : sub \in SubscriptionIds}
    [] method = "system_health" -> {PeersObject(k) : k \in 0..MaxPeers}
    [] OTHER -> {StringValue(<<"o", "k">>)}

\* inner.allChains: the chains that are ready in the inner manager, whether or
\* not their chain-ready item has been taken, and the well-known chains
InnerAllChains ==
  {SandboxChainInfo(p[1], p[2]) :
     p \in {q \in innerSandboxes \X ChainIds : innerChains[q[1]][q[2]] \in {"announcing", "ready"}}}
  \cup {WellKnownChainInfo(name) : name \in WellKnownNames}

\* ids of the requests of `sent` that the layer generated itself
InternalIdsOf(sent) ==
  {sent[i].message.jsonRpcMessage.id : i \in 1..Len(sent)}

\* what an operation was given (`item`: the item taken from the inner manager or
\* the message injected), the record of its chain before, how it ended, what it
\* returned and what it passed to inner.sandboxMessage
Observed(op, s, item, chain, outcome, returned, sent) ==
  [op |-> op, sandboxId |-> s, item |-> item, chain |-> chain, outcome |-> outcome,
   returned |-> returned, sent |-> sent, client |-> FALSE, givenId |-> UndefinedValue]

HasRecord(chains, s, c) == GetChain(chains, s, c) # NoChain

\* the item is an event of the subscription the record of its chain holds
OnCurrentSubscription(chain, item) ==
  /\ item.type = "rpc"
  /\ "method" \in DOMAIN item.jsonRpcMessage
  /\ item.jsonRpcMessage.method = "chainHead_unstable_followEvent"
  /\ chain # NoChain
  /\ item.jsonRpcMessage.params.subscription = chain.readySubscriptionId

EventOf(item) == item.jsonRpcMessage.params.result.event

\* initializedSeen after an operation on sandbox s that took `item` (NoItem:
\* none) and that ended the tracking of the chains `ended` of s: an error item,
\* a remove-chain message, the deletion of the sandbox, or a chain-ready item,
\* which starts it anew
SeenAfter(s, item, ended) ==
  [x \in SandboxIds |-> [c \in ChainIds |->
     IF /\ x = s
        /\ item.type = "rpc"
        /\ c = item.chainId
        /\ OnCurrentSubscription(GetChain(sandboxesChains, s, c), item)
        /\ EventOf(item) = "initialized"
       THEN "current"
     ELSE IF initializedSeen[x][c] = "current" /\ x = s /\ c \in ended
       THEN "earlier"
     ELSE initializedSeen[x][c]]]

\* endedBy after an operation on sandbox s that ended the tracking of those of
\* the chains `ended` of s that were tracked, or started it anew
EndedAfter(s, cause, ended) ==
  [x \in SandboxIds |-> [c \in ChainIds |->
     IF x = s /\ c \in ended /\ cause = "chain-ready" THEN "none"
     ELSE IF x = s /\ c \in ended /\ GetChain(sandboxesChains, x, c) # NoChain THEN cause
     ELSE endedBy[x][c]]]

(***************************************************************************)
(* Initial state: the constructor.                                         *)
(***************************************************************************)
Init ==
  /\ sandboxesChains = EmptyMap
  /\ nextHealthCheckRqId = 0
  /\ innerSandboxes = {}
  /\ innerChains = [s \in SandboxIds |-> [c \in ChainIds |-> "none"]]
  /\ innerRequests = EmptyBag
  /\ internalIds = {}
  /\ initializedSeen = [s \in SandboxIds |-> [c \in ChainIds |-> "never"]]
  /\ endedBy = [s \in SandboxIds |-> [c \in ChainIds |-> "none"]]
  /\ last = Observed("constructor", "", NoItem, NoChain, "ok", NoItem, <<>>)

(***************************************************************************)
(* Operations of the layer.                                                *)
(***************************************************************************)
AddSandbox(s) ==
  /\ IF s \in innerSandboxes
       THEN /\ UNCHANGED <<sandboxesChains, innerSandboxes>>
            /\ last' = Observed("addSandbox", s, NoItem, NoChain, "Error", NoItem, <<>>)
       ELSE /\ innerSandboxes' = innerSandboxes \cup {s}
            /\ sandboxesChains' = OnAddSandbox(sandboxesChains, s)
            /\ last' = Observed("addSandbox", s, NoItem, NoChain, "ok", NoItem, <<>>)
  /\ UNCHANGED <<nextHealthCheckRqId, innerChains, innerRequests, internalIds,
                 initializedSeen, endedBy>>

DeleteSandbox(s) ==
  /\ initializedSeen' = SeenAfter(s, NoItem, IF s \in innerSandboxes THEN ChainIds ELSE {})
  /\ endedBy' = EndedAfter(s, "deleteSandbox", IF s \in innerSandboxes THEN ChainIds ELSE {})
  /\ IF s \notin innerSandboxes
       THEN /\ UNCHANGED <<sandboxesChains, innerSandboxes, innerChains, innerRequests>>
            /\ last' = Observed("deleteSandbox", s, NoItem, NoChain, "Error", NoItem, <<>>)
       ELSE /\ innerSandboxes' = innerSandboxes \ {s}
            /\ innerChains' = [innerChains EXCEPT ![s] = [c \in ChainIds |-> "none"]]
            /\ innerRequests' =
                 [r \in {q \in DOMAIN innerRequests : q.sandboxId # s} |-> innerRequests[r]]
            /\ sandboxesChains' = OnDeleteSandbox(sandboxesChains, s)
            /\ last' = Observed("deleteSandbox", s, NoItem, NoChain, "ok", NoItem, <<>>)
  /\ UNCHANGED <<nextHealthCheckRqId, internalIds>>

\* one turn of the loop of nextSandboxMessage(s): this.#inner.nextSandboxMessage
\* yields `item`, which leaves the inner manager with `chains` and `requests`;
\* `answered` is the request the item answers, if it answers one of a client
NextSandboxMessage(s, item, chains, requests, answered) ==
  /\ s \in innerSandboxes
  /\ LET eff == HandleToApplication(sandboxesChains, nextHealthCheckRqId, s, item)
         sent == [i \in 1..Len(eff.sent) |-> Sent(s, eff.sent[i])]
         inner == InnerSandboxMessages(requests, chains, sent)
     IN /\ eff.counter <= MaxRqId
        /\ sandboxesChains' = eff.chains
        /\ nextHealthCheckRqId' = eff.counter
        /\ innerRequests' = inner.requests
        /\ innerChains' = inner.chains
        /\ internalIds' = internalIds \cup InternalIdsOf(sent)
        /\ initializedSeen' =
             SeenAfter(s, item, IF item.type \in {"chain-ready", "error"}
                                  THEN {item.chainId} ELSE {})
        /\ endedBy' =
             EndedAfter(s, item.type, IF item.type \in {"chain-ready", "error"}
                                        THEN {item.chainId} ELSE {})
        /\ last' = [Observed("nextSandboxMessage", s, item,
                             GetChain(sandboxesChains, s, item.chainId),
                             eff.outcome, eff.returned, sent)
                     EXCEPT !.client = answered.client, !.givenId = answered.givenId]
  /\ UNCHANGED innerSandboxes

\* nextSandboxMessage of a sandbox the inner manager does not know
NextSandboxMessageUnknown(s) ==
  /\ s \notin innerSandboxes
  /\ last' = Observed("nextSandboxMessage", s, NoItem, NoChain, "Error", NoItem, <<>>)
  /\ UNCHANGED <<sandboxesChains, nextHealthCheckRqId, innerSandboxes, innerChains,
                 innerRequests, internalIds, initializedSeen, endedBy>>

\* sandboxMessage(s, message)
SandboxMessage(s, message) ==
  LET eff == HandleToExtension(sandboxesChains, s, message)
      delegates == eff.delegated # NoMessage
      innerThrows == delegates /\ s \notin innerSandboxes
      inner == IF delegates /\ ~innerThrows
                 THEN InnerSandboxMessage(innerRequests, innerChains, s, eff.delegated,
                                          TRUE, message.jsonRpcMessage.id)
                 ELSE [requests |-> innerRequests, chains |-> innerChains]
  IN /\ sandboxesChains' = eff.chains
     /\ innerRequests' = inner.requests
     /\ innerChains' = inner.chains
     /\ last' = Observed("sandboxMessage", s, message, NoChain,
                         IF innerThrows THEN "Error" ELSE eff.outcome, NoItem,
                         IF delegates THEN <<Sent(s, eff.delegated)>> ELSE <<>>)
     /\ initializedSeen' =
          SeenAfter(s, NoItem, IF message.type = "remove-chain" /\ s \in innerSandboxes
                                 THEN {message.chainId} ELSE {})
     /\ endedBy' =
          EndedAfter(s, "remove-chain",
                     IF message.type = "remove-chain" /\ s \in innerSandboxes
                       THEN {message.chainId} ELSE {})
     /\ UNCHANGED <<nextHealthCheckRqId, innerSandboxes, internalIds>>

\* the timer fires: #sendPings, while the counter stays within `bound`
PingWithin(bound) ==
  \E order \in IterationOrders(sandboxesChains) :
    LET eff == SendPings(order, nextHealthCheckRqId, <<>>, innerSandboxes)
        accepted == IF eff.outcome = "ok" THEN eff.sent
                    ELSE SubSeq(eff.sent, 1, Len(eff.sent) - 1)
        inner == InnerSandboxMessages(innerRequests, innerChains, accepted)
    IN /\ eff.counter <= bound
       /\ nextHealthCheckRqId' = eff.counter
       /\ innerRequests' = inner.requests
       /\ internalIds' = internalIds \cup InternalIdsOf(eff.sent)
       /\ last' = Observed("sendPings", "", NoItem, NoChain, eff.outcome, NoItem, eff.sent)
       /\ UNCHANGED <<sandboxesChains, innerSandboxes, innerChains, initializedSeen,
                      endedBy>>

Ping == PingWithin(MaxRqId)

(***************************************************************************)
(* The clients of the sandboxes.                                           *)
(***************************************************************************)
\* a client adds a chain under an id its sandbox does not use
ClientAddChain(s, c) ==
  /\ s \in innerSandboxes => innerChains[s][c] = "none"
  /\ SandboxMessage(s, AddChainMessage(c))

ClientRemoveChain(s, c) == SandboxMessage(s, RemoveChainMessage(c))

\* a client sends requests to a chain once it was told the chain is ready
ClientRpc(s, c, id) ==
  /\ innerChains[s][c] = "ready"
  /\ SandboxMessage(s, RpcMessage(c, Request(id, "system_name", <<>>)))

ClientMalformedRpc(s, c) == SandboxMessage(s, RpcMessage(c, MalformedText))

\* addSandbox with an id in use
AddSandboxAgain(s) ==
  /\ s \in innerSandboxes
  /\ AddSandbox(s)

\* deleteSandbox of a sandbox never added, or deleted
DeleteSandboxUnknown(s) ==
  /\ s \notin innerSandboxes
  /\ DeleteSandbox(s)

\* sandboxMessage for a sandbox never added, or deleted
SandboxMessageUnknown(s, message) ==
  /\ s \notin innerSandboxes
  /\ SandboxMessage(s, message)

\* the messages of a client, of every type
ClientMessages ==
  {AddChainMessage("c1"), RemoveChainMessage("c1"),
   RpcMessage("c1", Request(NumberValue(0), "system_name", <<>>)),
   RpcMessage("c1", MalformedText)}

(***************************************************************************)
(* The items the inner manager yields to nextSandboxMessage.               *)
(***************************************************************************)
NoRequest == [client |-> FALSE, givenId |-> UndefinedValue]

\* a chain being added has become ready; its chain-ready item waits
InnerChainReady(s, c) ==
  /\ s \in innerSandboxes
  /\ innerChains[s][c] = "initializing"
  /\ innerChains' = [innerChains EXCEPT ![s][c] = "announcing"]
  /\ last' = Observed("inner", "", NoItem, NoChain, "ok", NoItem, <<>>)
  /\ UNCHANGED <<sandboxesChains, nextHealthCheckRqId, innerSandboxes, innerRequests,
                 internalIds, initializedSeen, endedBy>>

YieldChainReady(s, c) ==
  /\ innerChains[s][c] = "announcing"
  /\ NextSandboxMessage(s, ChainReadyItem(c),
                        [innerChains EXCEPT ![s][c] = "ready"], innerRequests, NoRequest)

\* a chain fails, while it is being added or when it is ready
YieldError(s, c) ==
  /\ innerChains[s][c] \in {"initializing", "ready"}
  /\ NextSandboxMessage(s, ErrorItem(c),
                        [innerChains EXCEPT ![s][c] = "none"], innerRequests, NoRequest)

\* a request is answered with the id it was given, whatever has become of its
\* chain since it was sent
YieldResponse(rq, result) ==
  /\ BagIn(rq, innerRequests)
  /\ result \in InnerResults(rq.message.jsonRpcMessage.method)
  /\ NextSandboxMessage(rq.sandboxId,
                        RpcItem(rq.message.chainId,
                                Response(rq.message.jsonRpcMessage.id, result)),
                        innerChains, innerRequests (-) SetToBag({rq}), rq)

\* a ready chain notifies: an event of a chainHead_unstable_follow subscription
YieldFollowEvent(s, c, sub, event) ==
  /\ innerChains[s][c] = "ready"
  /\ NextSandboxMessage(s,
                        RpcItem(c, Notification("chainHead_unstable_followEvent",
                                                SubscriptionString(sub), event)),
                        innerChains, innerRequests, NoRequest)

\* a ready chain notifies on a subscription of another kind
YieldOtherNotification(s, c, sub) ==
  /\ innerChains[s][c] = "ready"
  /\ NextSandboxMessage(s,
                        RpcItem(c, Notification("chain_newHead", SubscriptionString(sub), "")),
                        innerChains, innerRequests, NoRequest)

\* ids of no request: without a known prefix, truthy or not
ForeignIds ==
  {StringValue(<<"x">>), StringValue(<<"e", "x", "t", "e", "r", "n">>), NumberValue(7),
   StringValue(<<>>), NumberValue(0), NullValue}

\* a response whose id no request carried
YieldForeignResponse(s, c, id) ==
  /\ innerChains[s][c] = "ready"
  /\ NextSandboxMessage(s, RpcItem(c, Response(id, StringValue(<<"o", "k">>))),
                        innerChains, innerRequests, NoRequest)

FollowEvents == {"initialized", "stop", "newBlock"}

\* the (sandbox, chain) pairs of SpecPairs
Pairs == {<<"s1", "c1">>, <<"s1", "c2">>}

AllResults ==
  UNION {InnerResults(m) : m \in {"chainHead_unstable_follow", "system_health", "system_name"}}

(***************************************************************************)
(* Specifications.  Their calls keep to the contract: a sandbox is added   *)
(* when it is unknown and used when it is known.                           *)
(***************************************************************************)
\* one sandbox with one chain; every kind of item and of client message
Next ==
  \/ \E sub \in SubscriptionIds, event \in FollowEvents :
       YieldFollowEvent("s1", "c1", sub, event)
  \/ \E rq \in DOMAIN innerRequests, result \in AllResults : YieldResponse(rq, result)
  \/ YieldOtherNotification("s1", "c1", "subA")
  \/ InnerChainReady("s1", "c1")
  \/ YieldChainReady("s1", "c1")
  \/ YieldError("s1", "c1")
  \/ Ping
  \/ \E s \in {"s1"} \ innerSandboxes : AddSandbox(s)
  \/ \E s \in innerSandboxes : DeleteSandbox(s)
  \/ \E s \in innerSandboxes : ClientAddChain(s, "c1")
  \/ \E s \in innerSandboxes : ClientRemoveChain(s, "c1")
  \/ \E s \in innerSandboxes, id \in SomeClientIds : ClientRpc(s, "c1", id)
Spec == Init /\ [][Next]_vars

\* one sandbox with one chain, whose client uses every id of ClientIds
NextIds ==
  \/ AddSandbox("s1")
  \/ ClientAddChain("s1", "c1")
  \/ InnerChainReady("s1", "c1")
  \/ YieldChainReady("s1", "c1")
  \/ \E id \in ClientIds : ClientRpc("s1", "c1", id)
  \/ Ping
  \/ \E rq \in DOMAIN innerRequests, result \in AllResults : YieldResponse(rq, result)

SpecIds == Init /\ [][NextIds]_vars

\* two sandboxes with one chain each, their follow subscriptions and the pings
NextSandboxes ==
  \/ \E s \in SandboxIds \ innerSandboxes : AddSandbox(s)
  \/ \E s \in innerSandboxes : DeleteSandbox(s)
  \/ \E s \in innerSandboxes : ClientAddChain(s, "c1")
  \/ Ping
  \/ \E s \in SandboxIds : InnerChainReady(s, "c1")
  \/ \E s \in SandboxIds : YieldChainReady(s, "c1")
  \/ \E rq \in DOMAIN innerRequests, result \in AllResults : YieldResponse(rq, result)
  \/ \E s \in SandboxIds, event \in {"initialized", "stop"} :
       YieldFollowEvent(s, "c1", "subA", event)

SpecSandboxes == Init /\ [][NextSandboxes]_vars

\* calls that break the contract: a sandbox id added twice, calls for a sandbox
\* that is unknown, texts that are no JSON, responses to no request
NextCalls ==
  \/ \E s \in {"s1"} \ innerSandboxes : AddSandbox(s)
  \/ \E s \in innerSandboxes : DeleteSandbox(s)
  \/ \E s \in innerSandboxes : ClientAddChain(s, "c1")
  \/ InnerChainReady("s1", "c1")
  \/ YieldChainReady("s1", "c1")
  \/ \E s \in innerSandboxes : ClientRpc(s, "c1", NumberValue(0))
  \/ \E rq \in DOMAIN innerRequests, result \in AllResults : YieldResponse(rq, result)
  \/ Ping
  \/ \E s \in SandboxIds : AddSandboxAgain(s)
  \/ \E s \in SandboxIds : DeleteSandboxUnknown(s)
  \/ \E s \in SandboxIds : NextSandboxMessageUnknown(s)
  \/ \E s \in SandboxIds, message \in ClientMessages : SandboxMessageUnknown(s, message)
  \/ \E s \in innerSandboxes : innerChains[s]["c1"] = "ready" /\ ClientMalformedRpc(s, "c1")
  \/ \E id \in ForeignIds : YieldForeignResponse("s1", "c1", id)

SpecCalls == Init /\ [][NextCalls]_vars

\* two sandboxes with one chain each, pinged while syncing and when synced
NextPings ==
  \/ \E s \in SandboxIds \ innerSandboxes : AddSandbox(s)
  \/ \E s \in innerSandboxes : ClientAddChain(s, "c1")
  \/ \E s \in SandboxIds : InnerChainReady(s, "c1")
  \/ \E s \in SandboxIds : YieldChainReady(s, "c1")
  \/ \E rq \in DOMAIN innerRequests, result \in AllResults : YieldResponse(rq, result)
  \/ \E s \in SandboxIds : YieldFollowEvent(s, "c1", "subA", "initialized")
  \/ PingWithin(MaxPingRqId)

SpecPings == Init /\ [][NextPings]_vars

\* one sandbox with two chains, each with its own follow subscription, which
\* stops and is established again
NextPairs ==
  \/ \E s \in {"s1"} \ innerSandboxes : AddSandbox(s)
  \/ \E p \in Pairs : p[1] \in innerSandboxes /\ ClientAddChain(p[1], p[2])
  \/ \E p \in Pairs : p[1] \in innerSandboxes /\ ClientRemoveChain(p[1], p[2])
  \/ \E p \in Pairs : InnerChainReady(p[1], p[2])
  \/ \E p \in Pairs : YieldChainReady(p[1], p[2])
  \/ \E rq \in DOMAIN innerRequests, result \in AllResults : YieldResponse(rq, result)
  \/ \E p \in Pairs, sub \in SubscriptionIds, event \in {"stop", "newBlock"} :
       YieldFollowEvent(p[1], p[2], sub, event)

SpecPairs == Init /\ [][NextPairs]_vars

\* a chain that is neither removed nor fails: its follow subscription stops
\* again and again, the inner manager answers every request it was sent and
\* the caller keeps calling nextSandboxMessage; meanwhile another chain of the
\* sandbox fails to start and another sandbox comes and goes
AnswerRequest ==
  \E rq \in DOMAIN innerRequests, result \in AllResults : YieldResponse(rq, result)

NextLive ==
  \/ \E s \in SandboxIds \ innerSandboxes : AddSandbox(s)
  \/ \E s \in innerSandboxes \ {"s1"} : DeleteSandbox(s)
  \/ "s1" \in innerSandboxes /\ ClientAddChain("s1", "c1")
  \/ InnerChainReady("s1", "c1")
  \/ YieldChainReady("s1", "c1")
  \/ AnswerRequest
  \/ \E sub \in SubscriptionIds, event \in {"stop", "newBlock"} :
       YieldFollowEvent("s1", "c1", sub, event)
  \/ \E sub \in SubscriptionIds : YieldOtherNotification("s1", "c1", sub)
  \/ innerChains["s1"]["c1"] = "ready" /\ ClientMalformedRpc("s1", "c1")
  \/ "s1" \in innerSandboxes /\ ClientAddChain("s1", "c2")
  \/ YieldError("s1", "c2")

SpecLive == Init /\ [][NextLive]_vars /\ WF_vars(AnswerRequest)

(***************************************************************************)
(* Properties.                                                             *)
(***************************************************************************)
\* the turn of nextSandboxMessage just taken handled the answer to a request
\* of a client
AnsweredClient == last.op = "nextSandboxMessage" /\ last.client

\* C1: the response to a client's request with id X (a string, a number or
\* null) is returned to the caller of nextSandboxMessage, not consumed, and
\* carries the id X again, of the same type and value.
ExternalIdRoundTrip ==
  AnsweredClient =>
    /\ last.outcome = "return"
    /\ last.returned.type = "rpc"
    /\ last.returned.chainId = last.item.chainId
    /\ IdOf(last.returned.jsonRpcMessage) = last.givenId
    /\ last.returned.jsonRpcMessage.result = last.item.jsonRpcMessage.result

\* the response to a request whose id is the string of a quote and a backslash
\* has been returned
ExternalIdRoundTripWitness ==
  /\ AnsweredClient
  /\ last.givenId = StringValue(<<QUOTE, BACKSLASH>>)
  /\ last.outcome = "return"

\* the ids of the requests the layer itself passed to the inner manager in the
\* operation observed
SentIds(observed) ==
  [i \in 1..Len(observed.sent) |-> observed.sent[i].message.jsonRpcMessage.id]

IssuesInternalRequests(observed) == observed.op \in {"nextSandboxMessage", "sendPings"}

\* C2: no two requests the layer generates ("health-check:N", "ready-sub:N")
\* ever carry the same id, and the counter advances by one after every request
\* the layer issues.
InternalIdsNeverRepeat ==
  [][IssuesInternalRequests(last') =>
       /\ \A i \in 1..Len(last'.sent) : SentIds(last')[i] \notin internalIds
       /\ \A i, j \in 1..Len(last'.sent) : i # j => SentIds(last')[i] # SentIds(last')[j]
       /\ nextHealthCheckRqId' = nextHealthCheckRqId + Len(last'.sent)]_vars

\* the item is a response whose id, as the inner manager was given it, starts
\* with `prefix`
IsResponseTo(item, prefix) ==
  /\ item.type = "rpc"
  /\ "id" \in DOMAIN item.jsonRpcMessage
  /\ item.jsonRpcMessage.id.t = "string"
  /\ startsWith(item.jsonRpcMessage.id.s, prefix)

IsFollowEvent(item) ==
  /\ item.type = "rpc"
  /\ "method" \in DOMAIN item.jsonRpcMessage
  /\ item.jsonRpcMessage.method = "chainHead_unstable_followEvent"

\* the item as its receiver expects it: a response carries the id of the request
IdRestored(observed) ==
  IF observed.client
    THEN [observed.item EXCEPT
            !.jsonRpcMessage = [observed.item.jsonRpcMessage EXCEPT !.id = observed.givenId]]
    ELSE observed.item

Consumed(observed) == observed.outcome = "continue" /\ observed.returned = NoItem
Surfaced(observed, item) == observed.outcome = "return" /\ observed.returned = item

ReadsRecord(item) ==
  \/ IsResponseTo(item, READY_SUB)
  \/ IsResponseTo(item, HEALTH_CHECK)
  \/ IsFollowEvent(item)

Shows(chains, s, c, isSyncing) ==
  /\ HasRecord(chains, s, c)
  /\ ChainStatus(chains, s, c).isSyncing = isSyncing

\* the step takes an "initialized" event of the current subscription of c in s
TakesInitialized(s, c) ==
  /\ last'.op = "nextSandboxMessage"
  /\ last'.sandboxId = s
  /\ last'.item.chainId = c
  /\ OnCurrentSubscription(last'.chain, last'.item)
  /\ EventOf(last'.item) = "initialized"

\* the step returns one chains-status-changed and sends one system_health
\* request for c in s, with a health-check id not sent before
AnnouncesAndAsksHealth(s, c) ==
  /\ Surfaced(last', ChainsStatusChanged)
  /\ Len(last'.sent) = 1
  /\ last'.sent[1].sandboxId = s
  /\ last'.sent[1].message.type = "rpc"
  /\ last'.sent[1].message.chainId = c
  /\ last'.sent[1].message.jsonRpcMessage.method = "system_health"
  /\ last'.sent[1].message.jsonRpcMessage.params = <<>>
  /\ startsWith(SentIds(last')[1].s, HEALTH_CHECK)
  /\ SentIds(last')[1] \notin internalIds

\* C4 as stated: once the "initialized" event of the stored subscription of
\* chain C has been handled, every later read of the status of C shows
\* isSyncing = false; handling the event returns one chains-status-changed and
\* sends one system_health request with a fresh health-check id.
SyncedEverAfter ==
  [][\A s \in SandboxIds, c \in ChainIds :
       /\ (initializedSeen'[s][c] # "never" /\ HasRecord(sandboxesChains', s, c))
            => Shows(sandboxesChains', s, c, FALSE)
       /\ TakesInitialized(s, c) => AnnouncesAndAsksHealth(s, c)]_vars

\* C4 as amended: once the "initialized" event of the stored subscription of
\* chain C has been handled, every read of the status of C shows
\* isSyncing = false until an error item for C is handled, a remove-chain
\* message for C is injected, the sandbox is deleted or chain-ready is handled
\* for C again; handling the event returns one chains-status-changed and sends
\* one system_health request with a fresh health-check id.
SyncedWhileTracked ==
  [][\A s \in SandboxIds, c \in ChainIds :
       /\ initializedSeen'[s][c] = "current" => Shows(sandboxesChains', s, c, FALSE)
       /\ TakesInitialized(s, c) => AnnouncesAndAsksHealth(s, c)]_vars

\* after its "initialized" event, the chain has had its subscription stopped
\* and still shows isSyncing = false
SyncedWhileTrackedWitness ==
  /\ initializedSeen["s1"]["c1"] = "current"
  /\ last.op = "nextSandboxMessage"
  /\ OnCurrentSubscription(last.chain, last.item)
  /\ EventOf(last.item) = "stop"
  /\ Shows(sandboxesChains, "s1", "c1", FALSE)

\* C5 as stated: from the handling of chain-ready for chain C to the handling
\* of the "initialized" event of its subscription, whatever pings and answers
\* come between, the status of C shows isSyncing = true and peers = 0.
SyncingWithoutPeers ==
  \A s \in SandboxIds, c \in ChainIds :
    (HasRecord(sandboxesChains, s, c) /\ initializedSeen[s][c] # "current") =>
      /\ Shows(sandboxesChains, s, c, TRUE)
      /\ ChainStatus(sandboxesChains, s, c).peers = 0

\* the step takes, for c in s, an item of the given type
Takes(s, c, type) ==
  /\ last'.op = "nextSandboxMessage"
  /\ last'.sandboxId = s
  /\ last'.item.type = type
  /\ last'.item.chainId = c

\* C5 as amended: from the handling of chain-ready for chain C to the handling
\* of the "initialized" event of its subscription the status of C shows
\* isSyncing = true; its peers are 0 after chain-ready and change only when a
\* health-check response for C is handled, to the peers of that response.
SyncingUntilInitialized ==
  [][\A s \in SandboxIds, c \in ChainIds :
       (HasRecord(sandboxesChains', s, c) /\ initializedSeen'[s][c] # "current") =>
         /\ Shows(sandboxesChains', s, c, TRUE)
         /\ IF Takes(s, c, "chain-ready")
              THEN ChainStatus(sandboxesChains', s, c).peers = 0
            ELSE IF Takes(s, c, "rpc") /\ IsResponseTo(last'.item, HEALTH_CHECK)
              THEN ChainStatus(sandboxesChains', s, c).peers
                     = last'.item.jsonRpcMessage.result.n
            ELSE /\ HasRecord(sandboxesChains, s, c)
                 /\ ChainStatus(sandboxesChains', s, c).peers
                      = ChainStatus(sandboxesChains, s, c).peers]_vars

\* a chain that has not seen "initialized" shows a peer, after the answer to
\* a ping
SyncingUntilInitializedWitness ==
  /\ initializedSeen["s1"]["c1"] = "never"
  /\ last.op = "nextSandboxMessage"
  /\ IsResponseTo(last.item, HEALTH_CHECK)
  /\ Shows(sandboxesChains, "s1", "c1", TRUE)
  /\ ChainStatus(sandboxesChains, "s1", "c1").peers = 1

\* the step takes a health-check response for chain c of sandbox s, which has
\* a health record
TakesHealthOfTracked(s, c) ==
  /\ Takes(s, c, "rpc")
  /\ IsResponseTo(last'.item, HEALTH_CHECK)
  /\ HasRecord(sandboxesChains, s, c)

\* C6: handling a health-check response with result.peers = n for a tracked
\* chain C sets the peers of C to n and returns one chains-status-changed, and
\* nothing else: isSyncing and readySubscriptionId of C, the record of every
\* other chain and the counter stay as they are and no request is sent.
PeersUpdatedOnly ==
  [][\A s \in SandboxIds, c \in ChainIds :
       TakesHealthOfTracked(s, c) =>
         /\ DOMAIN sandboxesChains' = DOMAIN sandboxesChains
         /\ \A x \in SandboxIds, d \in ChainIds :
              GetChain(sandboxesChains', x, d) =
                IF x = s /\ d = c
                  THEN [isSyncing |-> GetChain(sandboxesChains, s, c).isSyncing,
                        peers |-> last'.item.jsonRpcMessage.result.n,
                        readySubscriptionId |->
                          GetChain(sandboxesChains, s, c).readySubscriptionId]
                  ELSE GetChain(sandboxesChains, x, d)
         /\ Surfaced(last', ChainsStatusChanged)
         /\ last'.sent = <<>>
         /\ nextHealthCheckRqId' = nextHealthCheckRqId]_vars

\* a health-check response has set the peers of a chain of s1 to 1 while s2
\* tracks a chain too
PeersUpdatedOnlyWitness ==
  /\ last.op = "nextSandboxMessage"
  /\ last.sandboxId = "s1"
  /\ IsResponseTo(last.item, HEALTH_CHECK)
  /\ last.chain # NoChain
  /\ last.chain.peers = 0
  /\ GetChain(sandboxesChains, "s1", "c1").peers = 1
  /\ HasRecord(sandboxesChains, "s2", "c1")

\* the operation observed took a "stop" event of the subscription stored for
\* its chain
TookStop ==
  /\ last.op = "nextSandboxMessage"
  /\ OnCurrentSubscription(last.chain, last.item)
  /\ last.chain.readySubscriptionId # UndefinedValue
  /\ EventOf(last.item) = "stop"

\* C7: when a "stop" event arrives on the subscription stored for chain C, the
\* stored readySubscriptionId becomes absent, exactly one
\* chainHead_unstable_follow([true]) request with a ready-sub id is sent for C,
\* and nothing is returned for the event: the call goes on to the next item.
StopResubscribes ==
  TookStop =>
    /\ GetChain(sandboxesChains, last.sandboxId, last.item.chainId).readySubscriptionId
         = UndefinedValue
    /\ Len(last.sent) = 1
    /\ last.sent[1].sandboxId = last.sandboxId
    /\ last.sent[1].message.type = "rpc"
    /\ last.sent[1].message.chainId = last.item.chainId
    /\ last.sent[1].message.jsonRpcMessage.method = "chainHead_unstable_follow"
    /\ last.sent[1].message.jsonRpcMessage.params = <<TRUE>>
    /\ startsWith(SentIds(last)[1].s, READY_SUB)
    /\ Consumed(last)

\* a "stop" event of the stored subscription has been taken
StopResubscribesWitness == TookStop /\ Len(last.sent) = 1

\* the step injects a remove-chain message for chain c of the known sandbox s
InjectsRemoveChain(s, c) ==
  /\ last'.op = "sandboxMessage"
  /\ last'.sandboxId = s
  /\ s \in innerSandboxes
  /\ last'.item.type = "remove-chain"
  /\ last'.item.chainId = c

\* the step deletes the sandbox s
Deletes(s) ==
  /\ last'.op = "deleteSandbox"
  /\ last'.sandboxId = s
  /\ last'.outcome = "ok"

\* C8: a health record exists for (S, C) exactly when chain-ready has been
\* handled for C in S and since then no error item for C was handled, no
\* remove-chain message for C was injected and S was not deleted; no other
\* operation creates or deletes a record.  Stated step by step, from the
\* initial state without records.
RecordLifecycle ==
  [][\A s \in SandboxIds, c \in ChainIds :
       HasRecord(sandboxesChains', s, c) =
         IF Takes(s, c, "chain-ready") THEN TRUE
         ELSE IF Takes(s, c, "error") \/ InjectsRemoveChain(s, c) \/ Deletes(s) THEN FALSE
         ELSE HasRecord(sandboxesChains, s, c)]_vars

\* a chain that had a record and lost it to an error item has a record again,
\* and an answer has just been handled for it
RecordLifecycleWitness ==
  /\ initializedSeen["s1"]["c1"] = "earlier"
  /\ endedBy["s1"]["c1"] = "none"
  /\ HasRecord(sandboxesChains, "s1", "c1")
  /\ last.op = "nextSandboxMessage"
  /\ last.item.type = "rpc"

\* the ping just sent has a request for sandbox s
PingTargets(s) ==
  /\ last.op = "sendPings"
  /\ \E i \in 1..Len(last.sent) : last.sent[i].sandboxId = s

\* C9: once deleteSandbox(S) has succeeded no health record of a chain of S
\* remains, and no ping sends a request to S, until S has been added again
\* and a chain has become ready in it.
DeletedSandboxNotPinged ==
  \A s \in SandboxIds :
    (s \notin innerSandboxes \/ \A c \in ChainIds : innerChains[s][c] # "ready") =>
      /\ \A c \in ChainIds : ~HasRecord(sandboxesChains, s, c)
      /\ ~PingTargets(s)

\* s1 was deleted while it tracked a chain; a ping has been sent since, to the
\* chain of s2 alone
DeletedSandboxNotPingedWitness ==
  /\ endedBy["s1"]["c1"] = "deleteSandbox"
  /\ "s1" \notin innerSandboxes
  /\ PingTargets("s2")

\* C10: handling an error item for chain C deletes the health record of C and
\* returns the item unmodified; a health-check response for C taken afterwards
\* is not handled as if C were tracked: the call does not fail on the missing
\* record and no record is created or updated.
LateHealthAnswerTolerated ==
  /\ (last.op = "nextSandboxMessage" /\ last.item.type = "error") =>
       /\ ~HasRecord(sandboxesChains, last.sandboxId, last.item.chainId)
       /\ Surfaced(last, last.item)
  /\ ( /\ last.op = "nextSandboxMessage"
       /\ IsResponseTo(last.item, HEALTH_CHECK)
       /\ endedBy[last.sandboxId][last.item.chainId] = "error" ) =>
       /\ last.outcome \in {"return", "continue"}
       /\ ~HasRecord(sandboxesChains, last.sandboxId, last.item.chainId)

\* C11: every id the layer generates starts with "ready-sub:" or
\* "health-check:" and never with "extern:"; every parseable request of a
\* client is forwarded with an id that starts with "extern:"; so the response
\* to a request of a client, whatever its id, is never taken for a
\* health-check or ready-sub response and changes no peers, isSyncing or
\* readySubscriptionId.
NamespacesDisjoint ==
  /\ IssuesInternalRequests(last) =>
       \A i \in 1..Len(last.sent) :
         /\ SentIds(last)[i].t = "string"
         /\ \/ startsWith(SentIds(last)[i].s, READY_SUB)
            \/ startsWith(SentIds(last)[i].s, HEALTH_CHECK)
         /\ ~startsWith(SentIds(last)[i].s, EXTERN)
  /\ ( /\ last.op = "sandboxMessage"
       /\ last.item.type = "rpc"
       /\ last.item.jsonRpcMessage.valid ) =>
       /\ Len(last.sent) = 1
       /\ SentIds(last)[1].t = "string"
       /\ startsWith(SentIds(last)[1].s, EXTERN)
  /\ AnsweredClient =>
       /\ ~IsResponseTo(last.item, HEALTH_CHECK)
       /\ ~IsResponseTo(last.item, READY_SUB)
       /\ last.returned # ChainsStatusChanged
       /\ GetChain(sandboxesChains, last.sandboxId, last.item.chainId) = last.chain

\* the response to a request that its client gave the id "health-check:0" has
\* been handled for a chain that has a health record
NamespacesDisjointWitness ==
  /\ AnsweredClient
  /\ last.givenId = StringValue(HEALTH_CHECK \o <<"0">>)
  /\ last.chain # NoChain

\* C12: every chain the inner manager reports for a sandbox has a health record
\* and allChains returns the peers and isSyncing of that record; a well-known
\* chain is returned with peers 0 and isSyncing true
AllChainsTotal ==
  \A chainInfo \in InnerAllChains :
    IF chainInfo.hasApiInfo
      THEN /\ HasRecord(sandboxesChains, chainInfo.sandboxId, chainInfo.chainId)
           /\ AllChainsEntry(sandboxesChains, chainInfo) =
                [peers |-> GetChain(sandboxesChains, chainInfo.sandboxId, chainInfo.chainId).peers,
                 isSyncing |-> GetChain(sandboxesChains, chainInfo.sandboxId, chainInfo.chainId).isSyncing]
      ELSE AllChainsEntry(sandboxesChains, chainInfo) = [peers |-> 0, isSyncing |-> TRUE]

\* the operation threw
Fails(observed) == observed.outcome \in {"Error", "TypeError", "SyntaxError"}

\* a JSON-RPC response whose id starts with none of the three prefixes
IsForeignResponse(observed) ==
  /\ observed.op = "nextSandboxMessage"
  /\ observed.item.type = "rpc"
  /\ "result" \in DOMAIN observed.item.jsonRpcMessage
  /\ ~IsResponseTo(observed.item, EXTERN)
  /\ ~IsResponseTo(observed.item, HEALTH_CHECK)
  /\ ~IsResponseTo(observed.item, READY_SUB)

\* C13 as stated: when nextSandboxMessage takes a response whose id matches
\* none of "extern:", "health-check:", "ready-sub:", the call fails, the
\* response is neither returned nor consumed, and no health record changes.
UnknownNamespaceFatal ==
  [][IsForeignResponse(last') =>
       /\ Fails(last')
       /\ sandboxesChains' = sandboxesChains]_vars

\* C13 as amended: when nextSandboxMessage takes a response whose id matches
\* none of the three prefixes, no health record and no counter changes; if the
\* id is truthy (a non-empty string, a number other than 0) the call fails and
\* the response is neither returned nor consumed; if the id is null, 0 or the
\* empty string the response is taken like a message without id and returned
\* unmodified.
UnknownNamespaceFatalIfTruthy ==
  [][IsForeignResponse(last') =>
       /\ sandboxesChains' = sandboxesChains
       /\ nextHealthCheckRqId' = nextHealthCheckRqId
       /\ last'.sent = <<>>
       /\ IF Truthy(last'.item.jsonRpcMessage.id)
            THEN Fails(last') /\ last'.returned = NoItem
            ELSE Surfaced(last', last'.item)]_vars

UnknownNamespaceFatalWitness ==
  /\ IsForeignResponse(last)
  /\ last.item.jsonRpcMessage.id = StringValue(<<"e", "x", "t", "e", "r", "n">>)
  /\ last.chain # NoChain
  /\ Fails(last)

\* the step is a call that breaks the contract: addSandbox with an id in use,
\* or deleteSandbox, sandboxMessage or nextSandboxMessage for a sandbox that is
\* not known (never added, or deleted)
BreaksContract ==
  \/ /\ last'.op = "addSandbox"
     /\ last'.sandboxId \in innerSandboxes
  \/ /\ last'.op \in {"deleteSandbox", "sandboxMessage", "nextSandboxMessage"}
     /\ last'.sandboxId \notin innerSandboxes

\* C14: addSandbox with an id in use fails and leaves the chains tracked for
\* that sandbox; deleteSandbox, sandboxMessage (every message type) and
\* nextSandboxMessage for a sandbox never added or deleted fail; in each case
\* the map of health records and the counter stay as they were.
ContractErrorsKeepState ==
  [][BreaksContract =>
       /\ Fails(last')
       /\ sandboxesChains' = sandboxesChains
       /\ nextHealthCheckRqId' = nextHealthCheckRqId]_vars

ContractErrorsKeepStateWitness ==
  /\ last.op = "sandboxMessage"
  /\ last.sandboxId = "s2"
  /\ last.item.type = "remove-chain"
  /\ Fails(last)
  /\ HasRecord(sandboxesChains, "s1", "c1")
  /\ nextHealthCheckRqId > 1

\* sandboxMessage was given an rpc message whose text is no JSON
GivenMalformedRpc(observed) ==
  /\ observed.op = "sandboxMessage"
  /\ observed.item.type = "rpc"
  /\ ~observed.item.jsonRpcMessage.valid

\* C15: an rpc message whose text cannot be parsed is passed to the inner
\* manager exactly once, as it was given, and changes no health record and no
\* counter.
MalformedRpcDelegated ==
  [][GivenMalformedRpc(last') =>
       /\ last'.sent = <<Sent(last'.sandboxId, last'.item)>>
       /\ sandboxesChains' = sandboxesChains
       /\ nextHealthCheckRqId' = nextHealthCheckRqId]_vars

MalformedRpcDelegatedWitness ==
  /\ GivenMalformedRpc(last)
  /\ last.sandboxId \in innerSandboxes
  /\ HasRecord(sandboxesChains, last.sandboxId, last.item.chainId)
  /\ last.outcome = "SyntaxError"

\* nextSandboxMessage took a notification
TookNotification(observed) ==
  /\ observed.op = "nextSandboxMessage"
  /\ observed.item.type = "rpc"
  /\ "method" \in DOMAIN observed.item.jsonRpcMessage

\* the notification is an "initialized" or "stop" event of the subscription
\* the record of its chain holds
ActedOn(observed) ==
  /\ OnCurrentSubscription(observed.chain, observed.item)
  /\ EventOf(observed.item) \in {"initialized", "stop"}

\* C16 as stated: a follow event of the current subscription of chain C that
\* is neither "initialized" nor "stop", a follow event of another subscription
\* and every other notification are each returned unmodified, change no health
\* record and send no request.
UnactedEventsSurfaced ==
  [][(TookNotification(last') /\ ~ActedOn(last')) =>
       /\ Surfaced(last', last'.item)
       /\ last'.sent = <<>>
       /\ sandboxesChains' = sandboxesChains]_vars

\* C16 as amended: a follow event of the current subscription of chain C that
\* is neither "initialized" nor "stop" is consumed: nothing is returned for it
\* and the call goes on to the next item; a follow event of a subscription
\* other than the stored one and every other notification are returned
\* unmodified.  None of them changes a health record, the counter, or sends a
\* request.
UnactedEventsConsumedOrSurfaced ==
  [][(TookNotification(last') /\ ~ActedOn(last')) =>
       /\ IF OnCurrentSubscription(last'.chain, last'.item)
            THEN Consumed(last')
            ELSE Surfaced(last', last'.item)
       /\ last'.sent = <<>>
       /\ sandboxesChains' = sandboxesChains
       /\ nextHealthCheckRqId' = nextHealthCheckRqId]_vars

\* a new-block event of the current subscription of a synced chain was consumed
UnactedEventsWitness ==
  /\ TookNotification(last)
  /\ OnCurrentSubscription(last.chain, last.item)
  /\ EventOf(last.item) = "newBlock"
  /\ ~last.chain.isSyncing
  /\ Consumed(last)
  /\ GetChain(sandboxesChains, last.sandboxId, last.item.chainId) = last.chain

\* the (sandbox, chain) pairs that have a health record
PairsWithRecord ==
  {p \in SandboxIds \X ChainIds : HasRecord(sandboxesChains, p[1], p[2])}

\* C17: a firing of the ping timer sends, for every (sandbox, chain) pair that
\* has a health record at that moment, syncing or not, exactly one
\* system_health request with no parameters, and none for another pair; each
\* carries a health-check id that no earlier request carried, and no health
\* record changes.
PingsEveryRecord ==
  [][last'.op = "sendPings" =>
       /\ \A p \in PairsWithRecord :
            Cardinality({i \in 1..Len(last'.sent) :
                           /\ last'.sent[i].sandboxId = p[1]
                           /\ last'.sent[i].message.chainId = p[2]}) = 1
       /\ Len(last'.sent) = Cardinality(PairsWithRecord)
       /\ \A i \in 1..Len(last'.sent) :
            /\ last'.sent[i].message.type = "rpc"
            /\ last'.sent[i].message.jsonRpcMessage.method = "system_health"
            /\ last'.sent[i].message.jsonRpcMessage.params = <<>>
            /\ SentIds(last')[i].t = "string"
            /\ startsWith(SentIds(last')[i].s, HEALTH_CHECK)
            /\ SentIds(last')[i] \notin internalIds
       /\ \A i, j \in 1..Len(last'.sent) : i # j => SentIds(last')[i] # SentIds(last')[j]
       /\ sandboxesChains' = sandboxesChains]_vars

\* a firing has pinged a syncing chain and a synced chain
PingsEveryRecordWitness ==
  /\ last.op = "sendPings"
  /\ Len(last.sent) = 2
  /\ Shows(sandboxesChains, "s1", "c1", TRUE)
  /\ Shows(sandboxesChains, "s2", "c1", FALSE)

\* the step handles an item, or injects a message, for chain c of sandbox s
Concerns(s, c) ==
  /\ last'.op \in {"nextSandboxMessage", "sandboxMessage"}
  /\ last'.sandboxId = s
  /\ last'.item.type \in {"chain-ready", "error", "rpc", "add-chain", "remove-chain"}
  /\ last'.item.chainId = c

\* C18: handling an item for chain C of sandbox S in nextSandboxMessage, or
\* injecting a message for (S, C) with sandboxMessage, leaves the record of
\* every other pair as it was and sends requests to (S, C) only; a follow event
\* for C is acted on or consumed only if its subscription is the one stored
\* for C, and is returned unmodified otherwise, whatever the other chains hold.
PairsIsolated ==
  [][\A s \in SandboxIds, c \in ChainIds :
       Concerns(s, c) =>
         /\ \A p \in (SandboxIds \X ChainIds) \ {<<s, c>>} :
              GetChain(sandboxesChains', p[1], p[2]) = GetChain(sandboxesChains, p[1], p[2])
         /\ \A i \in 1..Len(last'.sent) :
              /\ last'.sent[i].sandboxId = s
              /\ last'.sent[i].message.chainId = c
         /\ (IsFollowEvent(last'.item) /\ HasRecord(sandboxesChains, s, c)) =>
              IF last'.item.jsonRpcMessage.params.subscription
                   = GetChain(sandboxesChains, s, c).readySubscriptionId
                THEN ~Surfaced(last', last'.item)
                ELSE /\ Surfaced(last', last'.item)
                     /\ sandboxesChains' = sandboxesChains]_vars

\* an event on the subscription of another chain of the same sandbox was
\* returned, and the other chain keeps its subscription
PairsIsolatedWitness ==
  /\ last.op = "nextSandboxMessage"
  /\ last.sandboxId = "s1"
  /\ IsFollowEvent(last.item)
  /\ last.item.chainId = "c1"
  /\ EventOf(last.item) = "stop"
  /\ last.chain # NoChain
  /\ last.chain.readySubscriptionId \notin {UndefinedValue, last.item.jsonRpcMessage.params.subscription}
  /\ HasRecord(sandboxesChains, "s1", "c2")
  /\ GetChain(sandboxesChains, "s1", "c2").readySubscriptionId
       = last.item.jsonRpcMessage.params.subscription
  /\ Surfaced(last, last.item)

\* C19: while a health record lives, isSyncing never goes from false back to
\* true, not when the subscription stops and not when it is established
\* again; a record comes into being only by chain-ready, syncing, when the
\* chain has no record, so isSyncing is true again only after the old record
\* was deleted.
SyncingMonotone ==
  [][\A s \in SandboxIds, c \in ChainIds :
       /\ Shows(sandboxesChains, s, c, FALSE) => ~Shows(sandboxesChains', s, c, TRUE)
       /\ (~HasRecord(sandboxesChains, s, c) /\ HasRecord(sandboxesChains', s, c)) =>
            /\ Takes(s, c, "chain-ready")
            /\ Shows(sandboxesChains', s, c, TRUE)
       /\ (HasRecord(sandboxesChains, s, c) /\ HasRecord(sandboxesChains', s, c)) =>
            ~Takes(s, c, "chain-ready")]_vars

\* the subscription of a synced chain stopped and has been established again
SyncingMonotoneWitness ==
  /\ last.op = "nextSandboxMessage"
  /\ IsResponseTo(last.item, READY_SUB)
  /\ last.chain # NoChain
  /\ ~last.chain.isSyncing
  /\ last.chain.readySubscriptionId = UndefinedValue
  /\ Shows(sandboxesChains, last.sandboxId, last.item.chainId, FALSE)
  /\ GetChain(sandboxesChains, last.sandboxId, last.item.chainId).readySubscriptionId
       # UndefinedValue

\* the record of c in s holds no subscription id
Unsubscribed(s, c) ==
  /\ HasRecord(sandboxesChains, s, c)
  /\ GetChain(sandboxesChains, s, c).readySubscriptionId = UndefinedValue

\* the chainHead_unstable_follow requests for c in s that are not answered yet
FollowPending(s, c) ==
  {rq \in DOMAIN innerRequests :
     /\ rq.sandboxId = s
     /\ rq.message.chainId = c
     /\ rq.message.jsonRpcMessage.method = "chainHead_unstable_follow"}

\* the requests the step sends that subscribe to c in s
FollowSent(s, c) ==
  {i \in 1..Len(last'.sent) :
     /\ last'.sent[i].sandboxId = s
     /\ last'.sent[i].message.type = "rpc"
     /\ last'.sent[i].message.chainId = c
     /\ last'.sent[i].message.jsonRpcMessage.valid
     /\ last'.sent[i].message.jsonRpcMessage.method = "chainHead_unstable_follow"}

\* C20: for a chain C that is neither removed nor fails, with an inner manager
\* that answers every chainHead_unstable_follow request with a subscription id
\* and a caller that keeps calling nextSandboxMessage: whenever the record of C
\* holds no subscription id (after chain-ready, after a "stop") it holds one
\* again later; and a follow request for C is sent only when none is
\* unanswered, one at a time.
SubscriptionReestablished ==
  /\ \A s \in SandboxIds, c \in ChainIds :
       Unsubscribed(s, c) ~> (HasRecord(sandboxesChains, s, c) /\ ~Unsubscribed(s, c))
  /\ [][\A s \in SandboxIds, c \in ChainIds :
         /\ Cardinality(FollowSent(s, c)) <= 1
         /\ FollowSent(s, c) # {} => FollowPending(s, c) = {}
         /\ Cardinality(FollowPending(s, c)) <= 1]_vars

\* the subscription that stopped has been established again
SubscriptionReestablishedWitness ==
  /\ last.op = "nextSandboxMessage"
  /\ IsResponseTo(last.item, READY_SUB)
  /\ last.item.jsonRpcMessage.id = ReadySubId(1)
  /\ nextHealthCheckRqId = 1
  /\ last.chain # NoChain
  /\ last.chain.readySubscriptionId = UndefinedValue
  /\ ~Unsubscribed(last.sandboxId, last.item.chainId)
  /\ HasRecord(sandboxesChains, last.sandboxId, last.item.chainId)
====
